---- MODULE Spec2Model ----
(***************************************************************************)
(* Model of src/meal_planner.py: the budget retry loop orchestrator_tool,  *)
(* its per-item pricing coroutine get_price, and the text helpers          *)
(* _parse_price and _extract_item_name.                                    *)
(*                                                                         *)
(* Texts are sequences of one-character strings.  Money is kept in cents   *)
(* (the code parses prices with exactly two decimals and the budget as a   *)
(* whole number, so every amount is a whole number of cents).              *)
(***************************************************************************)
EXTENDS Integers, Sequences, FiniteSets, TLC

(***************************************************************************)
(* Character classes of Python's re module                                 *)
(***************************************************************************)
Digits == <<"0", "1", "2", "3", "4", "5", "6", "7", "8", "9">>

IsDigit(c) == \E d \in 1..10 : Digits[d] = c

DigitVal(c) == (CHOOSE d \in 1..10 : Digits[d] = c) - 1

\* \s
IsSpace(c) == c \in {" ", "\n", "\t", "\r"}

\* [\r\n]
IsNewline(c) == c \in {"\n", "\r"}

\* re.IGNORECASE folding of the letters of the literal "Grocery List"
Lower(c) ==
    CASE c = "G" -> "g" [] c = "R" -> "r" [] c = "O" -> "o" [] c = "C" -> "c"
      [] c = "E" -> "e" [] c = "Y" -> "y" [] c = "L" -> "l" [] c = "I" -> "i"
      [] c = "S" -> "s" [] c = "T" -> "t" [] OTHER -> c

\* t[a..b], empty when b < a
Slice(t, a, b) == IF b < a THEN <<>> ELSE SubSeq(t, a, b)

\* the least element of a non-empty set of positions, 0 for the empty set
First(S) == IF S = {} THEN 0 ELSE CHOOSE x \in S : \A y \in S : x <= y

\* first index >= i whose character does not satisfy the class, Len(t)+1 if none
RECURSIVE SkipDigits(_, _)
SkipDigits(t, i) ==
    IF i <= Len(t) /\ IsDigit(t[i]) THEN SkipDigits(t, i + 1) ELSE i

RECURSIVE SkipSpace(_, _)
SkipSpace(t, i) ==
    IF i <= Len(t) /\ IsSpace(t[i]) THEN SkipSpace(t, i + 1) ELSE i

RECURSIVE SkipNewlines(_, _)
SkipNewlines(t, i) ==
    IF i <= Len(t) /\ IsNewline(t[i]) THEN SkipNewlines(t, i + 1) ELSE i

RECURSIVE SkipHashes(_, _)
SkipHashes(t, i) ==
    IF i <= Len(t) /\ t[i] = "#" THEN SkipHashes(t, i + 1) ELSE i

\* end of the line holding position i: index of its "\n", Len(t)+1 if none
RECURSIVE LineEnd(_, _)
LineEnd(t, i) ==
    IF i <= Len(t) /\ t[i] # "\n" THEN LineEnd(t, i + 1) ELSE i

\* str.strip()
RECURSIVE StripRight(_)
StripRight(t) ==
    IF Len(t) > 0 /\ IsSpace(t[Len(t)]) THEN StripRight(Slice(t, 1, Len(t) - 1)) ELSE t

Strip(t) == LET k == SkipSpace(t, 1) IN StripRight(Slice(t, k, Len(t)))

\* int() of a run of decimal digits
RECURSIVE DecimalValue(_)
DecimalValue(ds) ==
    IF Len(ds) = 0 THEN 0
    ELSE 10 * DecimalValue(Slice(ds, 1, Len(ds) - 1)) + DigitVal(ds[Len(ds)])

(***************************************************************************)
(* _parse_price: re.search(r'\$?(\d+\.\d{2})', text), in cents             *)
(***************************************************************************)
\* a Python value handed to _parse_price: a str or something else
Str(chars) == [isstr |-> TRUE, chars |-> chars]

\* the int 42
NotStr == [isstr |-> FALSE, chars |-> <<"4", "2">>]

\* a pattern that captures the whole units only: \$?(\d+)
PriceMatchAt_units(t, i) ==
    LET j == IF t[i] = "$" THEN i + 1 ELSE i
        k == SkipDigits(t, j)
    IN  IF k > j THEN 100 * DecimalValue(Slice(t, j, k - 1)) ELSE -1

\* the pattern matched at position i: -1 if it does not match there,
\* else the value of group 1 in cents
PriceMatchAt(t, i) ==
    LET j == IF t[i] = "$" THEN i + 1 ELSE i
        k == SkipDigits(t, j)
    IN  IF /\ k > j
           /\ k + 2 <= Len(t)
           /\ t[k] = "."
           /\ IsDigit(t[k + 1])
           /\ IsDigit(t[k + 2])
        THEN 100 * DecimalValue(Slice(t, j, k - 1))
               + 10 * DigitVal(t[k + 1]) + DigitVal(t[k + 2])
        ELSE -1

\* a search that keeps the rightmost match
PriceSearchFrom_last(t, i) ==
    LET S == {k \in i..Len(t) : PriceMatchAt(t, k) >= 0}
    IN  IF S = {} THEN 0 ELSE PriceMatchAt(t, CHOOSE x \in S : \A y \in S : y <= x)

\* re.search: the leftmost position at or after i where the pattern matches
PriceSearchFrom(t, i) ==
    LET j == First({k \in i..Len(t) : PriceMatchAt(t, k) >= 0})
    IN  IF j = 0 THEN 0 ELSE PriceMatchAt(t, j)

_parse_price(text) ==
    IF ~text.isstr THEN 0 ELSE PriceSearchFrom(text.chars, 1)

(***************************************************************************)
(* _extract_item_name: re.sub(r'\s*\([^)]*\)', '', s).strip()              *)
(***************************************************************************)
\* index of the first ")" at or after i, Len(t)+1 if none
RECURSIVE FindClose(_, _)
FindClose(t, i) ==
    IF i <= Len(t) /\ t[i] # ")" THEN FindClose(t, i + 1) ELSE i

\* end index of a match of \s*\([^)]*\) starting at i, 0 if none
ParenMatchEnd(t, i) ==
    LET j == SkipSpace(t, i)
    IN  IF j <= Len(t) /\ t[j] = "(" /\ FindClose(t, j + 1) <= Len(t)
        THEN FindClose(t, j + 1)
        ELSE 0

\* re.sub from position i: every match removed, left to right
RECURSIVE RemoveParens(_, _)
RemoveParens(t, i) ==
    LET j == First({k \in i..Len(t) : ParenMatchEnd(t, k) > 0})
    IN  IF j = 0 THEN Slice(t, i, Len(t))
        ELSE Slice(t, i, j - 1) \o RemoveParens(t, ParenMatchEnd(t, j) + 1)

_extract_item_name(item_with_quantity) == Strip(RemoveParens(item_with_quantity, 1))

(***************************************************************************)
(* The grocery list pattern of orchestrator_tool (lines 104 and 150):      *)
(*   #+\s*Grocery List:?[\r\n]+((?:- .+\n?)+)      with re.IGNORECASE      *)
(***************************************************************************)
GroceryLiteral == <<"g", "r", "o", "c", "e", "r", "y", " ", "l", "i", "s", "t">>

\* the literal "Grocery List" at position i, letter case ignored
LiteralAt(t, i) ==
    /\ i + Len(GroceryLiteral) - 1 <= Len(t)
    /\ \A k \in 1..Len(GroceryLiteral) : Lower(t[i + k - 1]) = GroceryLiteral[k]

\* (?:- .+\n?)+ from position p: the index just after the last item line
\* matched, p itself when not even one item line matches
RECURSIVE ItemLinesEnd(_, _)
ItemLinesEnd(t, p) ==
    IF /\ p + 2 <= Len(t)
       /\ t[p] = "-"
       /\ t[p + 1] = " "
       /\ t[p + 2] # "\n"
    THEN LET e == LineEnd(t, p + 2)
         IN  IF e <= Len(t) THEN ItemLinesEnd(t, e + 1) ELSE e
    ELSE p

\* the pattern matched at position i: <<start of group 1, index after the match>>,
\* <<0, 0>> when it does not match there
BlockMatchAt(t, i) ==
    LET h == SkipHashes(t, i)
        g == SkipSpace(t, h)
        c == g + Len(GroceryLiteral)
        n == IF LiteralAt(t, g) /\ c <= Len(t) /\ t[c] = ":" THEN c + 1 ELSE c
        p == SkipNewlines(t, n)
        e == ItemLinesEnd(t, p)
    IN  IF h > i /\ LiteralAt(t, g) /\ p > n /\ e > p THEN <<p, e>> ELSE <<0, 0>>

\* re.search: the leftmost match, as <<start, start of group 1, index after>>,
\* <<0, 0, 0>> for None
BlockSearchFrom(t, i) ==
    LET j == First({k \in i..Len(t) : BlockMatchAt(t, k)[1] > 0})
    IN  IF j = 0 THEN <<0, 0, 0>>
        ELSE <<j, BlockMatchAt(t, j)[1], BlockMatchAt(t, j)[2]>>

GrocerySearch(text) == BlockSearchFrom(text, 1)

\* match.group(1)
Group1(text, m) == Slice(text, m[2], m[3] - 1)

\* re.findall(r"- ([^\n]+)", block)
RECURSIVE FindItems(_, _)
FindItems(t, i) ==
    LET j == First({k \in i..(Len(t) - 2) :
                      t[k] = "-" /\ t[k + 1] = " " /\ t[k + 2] # "\n"})
    IN  IF j = 0 THEN <<>>
        ELSE <<Slice(t, j + 2, LineEnd(t, j + 2) - 1)>> \o FindItems(t, LineEnd(t, j + 2))

\* re.sub(pattern, "", text): every non-overlapping match removed, left to right
RECURSIVE RemoveBlocks(_, _)
RemoveBlocks(t, i) ==
    LET m == BlockSearchFrom(t, i)
    IN  IF m[1] = 0 THEN Slice(t, i, Len(t))
        ELSE Slice(t, i, m[1] - 1) \o RemoveBlocks(t, m[3])

\* line 150: the narrative of the plan
Narrative(text) == Strip(RemoveBlocks(text, 1))

(***************************************************************************)
(* Budget (lines 85-86): re.search(r'Budget: \$?(\d+)', user_input),       *)
(* float(group 1), 100.0 when there is no match; in cents                  *)
(***************************************************************************)
BudgetLiteral == <<"B", "u", "d", "g", "e", "t", ":", " ">>

BudgetMatchAt(t, i) ==
    LET d == i + Len(BudgetLiteral)
        j == IF d <= Len(t) /\ t[d] = "$" THEN d + 1 ELSE d
        k == SkipDigits(t, j)
    IN  IF /\ d - 1 <= Len(t)
           /\ \A n \in 1..Len(BudgetLiteral) : t[i + n - 1] = BudgetLiteral[n]
           /\ k > j
        THEN 100 * DecimalValue(Slice(t, j, k - 1))
        ELSE -1

BudgetSearchFrom(t, i) ==
    LET j == First({k \in i..Len(t) : BudgetMatchAt(t, k) >= 0})
    IN  IF j = 0 THEN -1 ELSE BudgetMatchAt(t, j)

DefaultBudget == 10000

ParseBudget(user_input) ==
    IF BudgetSearchFrom(user_input, 1) >= 0
    THEN BudgetSearchFrom(user_input, 1)
    ELSE DefaultBudget

(***************************************************************************)
(* Inputs of the model: the user's request, the plans the meal planner     *)
(* agent may answer with, and the texts the web search agent may answer    *)
(* with.  Both agents are external: every answer is possible every time.   *)
(***************************************************************************)
\* "Budget: $4"
InputBudget4 == <<"B", "u", "d", "g", "e", "t", ":", " ", "$", "4">>

\* "Budget: $7"
InputBudget7 == <<"B", "u", "d", "g", "e", "t", ":", " ", "$", "7">>

\* line 199: f"- **Budget**: ${budget_input or '100'}"
BudgetLine(budget_input) ==
    <<"-", " ", "*", "*", "B", "u", "d", "g", "e", "t", "*", "*", ":", " ", "$">>
      \o (IF budget_input = <<>> THEN <<"1", "0", "0">> ELSE budget_input)

\* "- **Budget**: $4", the line chat_cli builds for a budget input of 4
InputCli == BudgetLine(<<"4">>)

\* "Budget: $0"
InputBudget0 == <<"B", "u", "d", "g", "e", "t", ":", " ", "$", "0">>

UserInputs == {InputBudget0, InputBudget4, InputBudget7, InputCli}

\* "Milk (1 gallon)"
Milk ==
    <<"M", "i", "l", "k", " ", "(", "1", " ", "g", "a", "l", "l", "o", "n", ")">>

\* "Rice"
Rice == <<"R", "i", "c", "e">>

\* "Bread"
Bread == <<"B", "r", "e", "a", "d">>

Catalog == <<Milk, Rice, Bread>>

\* the longest grocery list a generated plan carries
MaxItems == 2

\* the grocery lists of the generated plans: runs of the catalog
ItemLists ==
    LET top == IF MaxItems < Len(Catalog) THEN MaxItems ELSE Len(Catalog)
    IN  {SubSeq(Catalog, a, b) : a \in 1..top, b \in 1..top} \ {<<>>}

\* "Plan\n"
PlanIntro == <<"P", "l", "a", "n", "\n">>

\* "### Grocery List\n"
PlanHeader ==
    <<"#", "#", "#", " ", "G", "r", "o", "c", "e", "r", "y", " ", "L", "i", "s", "t", "\n">>

RECURSIVE ItemLines(_)
ItemLines(items) ==
    IF Len(items) = 0 THEN <<>>
    ELSE <<"-", " ">> \o Head(items) \o <<"\n">> \o ItemLines(Tail(items))

\* a plan that follows the GROCERY LIST RULES of the planner's instructions (line 57)
PlanWith(items) == PlanIntro \o PlanHeader \o ItemLines(items)

\* a plan whose list has no header: "Plan\n- Rice\n"
PlanNoList == PlanIntro \o ItemLines(<<Rice>>)

\* a plan with two grocery lists:
\* "Plan\n### Grocery List\n- Milk (1 gallon)\n### Grocery List\n- Rice\n"
PlanTwoLists == PlanWith(<<Milk>>) \o PlanHeader \o ItemLines(<<Rice>>)

\* a list whose second item carries a quantity
RiceMilk == <<Rice, Milk>>

Plans ==
    {PlanWith(items) : items \in ItemLists \cup {RiceMilk}}
        \cup {PlanNoList, PlanTwoLists}

\* lines 104, 118 and 150 applied to each plan of the model, computed once
GrocerySearchOf == [plan \in Plans |-> GrocerySearch(plan)]

FindItemsOf ==
    [plan \in Plans |->
        IF GrocerySearch(plan)[1] = 0 THEN <<>>
        ELSE FindItems(Group1(plan, GrocerySearch(plan)), 1)]

NarrativeOf == [plan \in Plans |-> Narrative(plan)]

\* "$3.50"
Text350 == Str(<<"$", "3", ".", "5", "0">>)

\* "no data"
TextNoData == Str(<<"n", "o", " ", "d", "a", "t", "a">>)

\* "$1.20"
Text120 == Str(<<"$", "1", ".", "2", "0">>)

Responses == {Text350, TextNoData, Text120}

\* lines 130, 134 and 139 applied to each answer and each item of the model,
\* computed once
ParsePriceOf == [r \in Responses |-> _parse_price(r)]

ItemTexts == UNION {{FindItemsOf[plan][i] : i \in DOMAIN FindItemsOf[plan]} : plan \in Plans}

ExtractItemNameOf == [item \in ItemTexts |-> _extract_item_name(item)]

(***************************************************************************)
(* State of one run of orchestrator_tool                                   *)
(***************************************************************************)
VARIABLES
    user_input,         \* the argument of orchestrator_tool
    budget,             \* line 86, in cents
    current_prompt,     \* lines 89, 109, 160
    attempt,            \* the loop variable of line 91
    pc,                 \* where the loop stands
    planOutstanding,    \* plan requests awaiting their answer (line 100)
    mealplan_text,      \* line 101
    grocery_list_items, \* line 118
    tasks,              \* the get_price coroutines handed to asyncio.gather
    completed,          \* the coroutines in the order they finished
    prices_found,       \* line 144
    total_cost,         \* line 145
    priced_list,        \* line 149, as <<item, price>> pairs
    final_report_text,  \* line 150
    result,             \* the value orchestrator_tool returns
    lookups,            \* price lookups sent since the last plan request
    log,                \* per attempt: its plan requests and what came of it
    call                \* a call of a text helper on its own: name, argument, value

vars ==
    <<user_input, budget, current_prompt, attempt, pc, planOutstanding,
      mealplan_text, grocery_list_items, tasks, completed, prices_found,
      total_cost, priced_list, final_report_text, result, lookups, log, call>>

max_retries == 3

Attempts == 0..(max_retries - 1)

\* f"Price of {x} at Walmart in Watertown, Connecticut" (lines 128, 137)
QueryPrefix == <<"P", "r", "i", "c", "e", " ", "o", "f", " ">>

QuerySuffix ==
    <<" ", "a", "t", " ", "W", "a", "l", "m", "a", "r", "t", " ", "i", "n", " ",
      "W", "a", "t", "e", "r", "t", "o", "w", "n", ",", " ",
      "C", "o", "n", "n", "e", "c", "t", "i", "c", "u", "t">>

Query(x) == QueryPrefix \o x \o QuerySuffix

RECURSIVE SumSeq(_)
SumSeq(xs) == IF Len(xs) = 0 THEN 0 ELSE Head(xs) + SumSeq(Tail(xs))

\* zip(grocery_list_items, prices_found) of line 149
Zip(items, prices) ==
    [i \in 1..(IF Len(items) < Len(prices) THEN Len(items) ELSE Len(prices))
        |-> <<items[i], prices[i]>>]

\* None: a result not yet received
NoValue == [isstr |-> FALSE, chars |-> <<"N", "o", "n", "e">>]

NewTask(item) ==
    [item_text |-> item, st |-> "ready", queries |-> <<>>,
     result_full |-> NoValue, result_fallback |-> NoValue, price |-> 0]

InitialPrompt(u) == [kind |-> "initial", total |-> 0, priced |-> <<>>, user_input |-> u]

\* lines 109-113
CorrectivePrompt(u) ==
    [kind |-> "corrective", total |-> 0, priced |-> <<>>, user_input |-> u]

\* a revision prompt that quotes the first attempt of the run
RevisionPrompt_first(total, priced, u) ==
    [kind |-> "revision", total |-> log[0].total, priced |-> priced, user_input |-> u]

\* lines 160-164
RevisionPrompt(total, priced, u) ==
    [kind |-> "revision", total |-> total, priced |-> priced, user_input |-> u]

NoResult ==
    [kind |-> "none", text |-> <<>>, budget |-> 0, cheapest |-> 0,
     total |-> 0, priced |-> <<>>]

\* the report of the last priced attempt in place of the raw plan text
ExtractionErrorReport_lastPriced(text) ==
    [kind |-> "best_effort", text |-> final_report_text, budget |-> budget,
     cheapest |-> total_cost, total |-> total_cost, priced |-> priced_list]

\* line 116
ExtractionErrorReport(text) ==
    [kind |-> "extraction_error", text |-> text, budget |-> 0, cheapest |-> 0,
     total |-> 0, priced |-> <<>>]

\* line 155
AcceptedReport(narrative, total, priced) ==
    [kind |-> "accepted", text |-> narrative, budget |-> 0, cheapest |-> 0,
     total |-> total, priced |-> priced]

\* a report of the attempt before the last: the figures of the revision prompt
BestEffortReport_previous(b, narrative, total, priced) ==
    [kind |-> "best_effort", text |-> narrative, budget |-> b,
     cheapest |-> current_prompt.total,
     total |-> current_prompt.total, priced |-> current_prompt.priced]

\* lines 167-172
BestEffortReport(b, narrative, total, priced) ==
    [kind |-> "best_effort", text |-> narrative, budget |-> b, cheapest |-> total,
     total |-> total, priced |-> priced]

NoLog == [planCalls |-> 0, outcome |-> "none", total |-> 0]

\* no helper has been called on its own
NoCall == [fn |-> "none", arg |-> <<>>, ret |-> <<>>]

Init ==
    /\ user_input \in UserInputs
    /\ budget = ParseBudget(user_input)
    /\ current_prompt = InitialPrompt(user_input)
    /\ attempt = 0
    /\ pc = "DRAFTING"
    /\ planOutstanding = 0
    /\ mealplan_text = <<>>
    /\ grocery_list_items = <<>>
    /\ tasks = <<>>
    /\ completed = <<>>
    /\ prices_found = <<>>
    /\ total_cost = 0
    /\ priced_list = <<>>
    /\ final_report_text = <<>>
    /\ result = NoResult
    /\ lookups = 0
    /\ log = [k \in Attempts |-> NoLog]
    /\ call = NoCall

(***************************************************************************)
(* The loop of orchestrator_tool (lines 91-172)                            *)
(***************************************************************************)
\* an off-by-one test: attempt < max_retries
HasRetriesLeft_offByOne(a) == a < max_retries

\* attempt < max_retries - 1 (lines 107 and 158)
HasRetriesLeft(a) == a < max_retries - 1

\* a retry that does not use up an attempt
NextIndex_same(a) == a

\* the value range(max_retries) yields after a (line 91)
NextIndex(a) == a + 1

\* for attempt in range(max_retries): the next iteration, or the end of the
\* loop, where the function ends without a return statement
ForNext(a) ==
    IF NextIndex(a) < max_retries
    THEN /\ attempt' = NextIndex(a)
         /\ pc' = "DRAFTING"
         /\ result' = result
    ELSE /\ attempt' = attempt
         /\ pc' = "RETURNED_NONE"
         /\ result' = NoResult

\* a plan request sent again after the report has been returned
PlanRequestDue_afterReturn == pc \in {"DRAFTING", "ACCEPTED"} /\ planOutstanding = 0

\* the next plan is requested while the prices are still being looked up
PlanRequestDue_eager == pc \in {"DRAFTING", "PRICING"} /\ planOutstanding = 0

\* lines 99-100: the loop stands at the await of the plan request and has
\* not sent it yet
PlanRequestDue == pc = "DRAFTING" /\ planOutstanding = 0

\* line 100: the plan request is sent
RequestPlan ==
    /\ PlanRequestDue
    /\ planOutstanding' = planOutstanding + 1
    /\ log' = [log EXCEPT ![attempt].planCalls = @ + 1]
    /\ lookups' = 0
    /\ UNCHANGED <<call, user_input, budget, current_prompt, attempt, pc, mealplan_text,
                   grocery_list_items, tasks, completed, prices_found, total_cost,
                   priced_list, final_report_text, result>>

\* lines 100-101: the planner answers
PlanReturns ==
    /\ pc = "DRAFTING"
    /\ planOutstanding > 0
    /\ \E plan \in Plans : mealplan_text' = plan
    /\ planOutstanding' = planOutstanding - 1
    /\ pc' = "EXTRACTING"
    /\ UNCHANGED <<call, user_input, budget, current_prompt, attempt, grocery_list_items,
                   tasks, completed, prices_found, total_cost, priced_list,
                   final_report_text, result, lookups, log>>

\* lines 104-119, and the creation of the coroutines of line 144
Extract ==
    /\ pc = "EXTRACTING"
    /\ LET match == GrocerySearchOf[mealplan_text]
       IN  IF match[1] = 0
           THEN /\ log' = [log EXCEPT ![attempt].outcome = "no_list"]
                /\ IF HasRetriesLeft(attempt)
                   THEN /\ current_prompt' = CorrectivePrompt(user_input)
                        /\ ForNext(attempt)
                   ELSE /\ result' = ExtractionErrorReport(mealplan_text)
                        /\ pc' = "EXHAUSTED"
                        /\ UNCHANGED <<current_prompt, attempt>>
                /\ UNCHANGED <<grocery_list_items, tasks, completed>>
           ELSE LET items == FindItemsOf[mealplan_text]
                IN  /\ grocery_list_items' = items
                    /\ tasks' = [i \in 1..Len(items) |-> NewTask(items[i])]
                    /\ completed' = <<>>
                    /\ pc' = "PRICING"
                    /\ UNCHANGED <<current_prompt, attempt, result, log>>
    /\ UNCHANGED <<call, user_input, budget, planOutstanding, mealplan_text, prices_found,
                   total_cost, priced_list, final_report_text, lookups>>

(***************************************************************************)
(* get_price (lines 123-142), one coroutine per grocery item               *)
(***************************************************************************)
\* a fallback on every price of 0.0, whatever the core name
NeedsFallback_always(price, item_text) == price = 0

\* lines 133-135: whether the fallback search is made
NeedsFallback(price, item_text) ==
    price = 0 /\ ExtractItemNameOf[item_text] # item_text

\* the coroutines awaited one after the other, as a loop of awaits would
Awaiting_inTurn(ts, i, st) ==
    ts[i].st = st /\ \A j \in 1..(i - 1) : ts[j].st = "done"

\* lines 129 and 138: coroutine i is suspended at its own await and resumes
\* when the answer to its own query comes, whatever the other coroutines do
Awaiting(ts, i, st) == ts[i].st = st

\* lines 128-129: the coroutine starts and sends the full query; the event
\* loop starts the coroutines of gather in the order they were handed to it
StartLookup(i) ==
    /\ tasks[i].st = "ready"
    /\ \A j \in 1..(i - 1) : tasks[j].st # "ready"
    /\ tasks' = [tasks EXCEPT ![i].st = "await_full",
                              ![i].queries = <<Query(tasks[i].item_text)>>]
    /\ lookups' = lookups + 1
    /\ UNCHANGED <<call, user_input, budget, current_prompt, attempt, pc, planOutstanding,
                   mealplan_text, grocery_list_items, completed, prices_found,
                   total_cost, priced_list, final_report_text, result, log>>

\* lines 129-142: the full query is answered
FullReturns(i) ==
    /\ Awaiting(tasks, i, "await_full")
    /\ \E r \in Responses :
         LET price == ParsePriceOf[r]
             item_text == tasks[i].item_text
         IN  IF NeedsFallback(price, item_text)
             THEN /\ tasks' = [tasks EXCEPT
                                 ![i].st = "await_fallback",
                                 ![i].result_full = r,
                                 ![i].price = price,
                                 ![i].queries =
                                     Append(@, Query(ExtractItemNameOf[item_text]))]
                  /\ lookups' = lookups + 1
                  /\ UNCHANGED completed
             ELSE /\ tasks' = [tasks EXCEPT
                                 ![i].st = "done",
                                 ![i].result_full = r,
                                 ![i].price = price]
                  /\ completed' = Append(completed, i)
                  /\ UNCHANGED lookups
    /\ UNCHANGED <<call, user_input, budget, current_prompt, attempt, pc, planOutstanding,
                   mealplan_text, grocery_list_items, prices_found, total_cost,
                   priced_list, final_report_text, result, log>>

\* lines 138-142: the fallback query is answered
FallbackReturns(i) ==
    /\ Awaiting(tasks, i, "await_fallback")
    /\ \E r \in Responses :
         tasks' = [tasks EXCEPT
                     ![i].st = "done",
                     ![i].result_fallback = r,
                     ![i].price = ParsePriceOf[r]]
    /\ completed' = Append(completed, i)
    /\ UNCHANGED <<call, user_input, budget, current_prompt, attempt, pc, planOutstanding,
                   mealplan_text, grocery_list_items, prices_found, total_cost,
                   priced_list, final_report_text, result, lookups, log>>

(***************************************************************************)
(* asyncio.gather and the evaluation (lines 144-172)                       *)
(***************************************************************************)
\* a wait that ends with the first coroutine to finish
GatherReady_first(ts) == \E i \in DOMAIN ts : ts[i].st = "done"

\* asyncio.gather resumes its caller when every coroutine has finished
GatherReady(ts) == \A i \in DOMAIN ts : ts[i].st = "done"

\* the results in the order the coroutines finished
GatherResults_completion(ts, order) == [i \in DOMAIN order |-> ts[order[i]].price]

\* the list asyncio.gather returns: the results in the order of its arguments
GatherResults(ts, order) == [i \in DOMAIN ts |-> ts[i].price]

\* lines 144-150; the coroutines are gone once gather has returned
Gather ==
    /\ pc = "PRICING"
    /\ GatherReady(tasks)
    /\ LET prices == GatherResults(tasks, completed)
           total == SumSeq(prices)
           priced == Zip(grocery_list_items, prices)
       IN  /\ prices_found' = prices
           /\ total_cost' = total
           /\ priced_list' = priced
           /\ log' = [log EXCEPT ![attempt].outcome = "priced",
                                 ![attempt].total = total]
    /\ final_report_text' = NarrativeOf[mealplan_text]
    /\ tasks' = <<>>
    /\ completed' = <<>>
    /\ pc' = "EVALUATING"
    /\ UNCHANGED <<call, user_input, budget, current_prompt, attempt, planOutstanding,
                   mealplan_text, grocery_list_items, result, lookups>>

\* a total of 0.0 read as "nothing was priced" and sent back for revision
WithinBudget_positive(total, b) == 0 < total /\ total <= b

\* a strict comparison: total_cost < budget
WithinBudget_strict(total, b) == total < b

\* line 153
WithinBudget(total, b) == total <= b

\* lines 153-172
Evaluate ==
    /\ pc = "EVALUATING"
    /\ IF WithinBudget(total_cost, budget)
       THEN /\ result' = AcceptedReport(final_report_text, total_cost, priced_list)
            /\ pc' = "ACCEPTED"
       ELSE IF HasRetriesLeft(attempt)
       THEN /\ pc' = "REVISING"
            /\ UNCHANGED result
       ELSE /\ result' = BestEffortReport(budget, final_report_text, total_cost, priced_list)
            /\ pc' = "EXHAUSTED"
    /\ UNCHANGED <<call, user_input, budget, current_prompt, attempt, planOutstanding,
                   mealplan_text, grocery_list_items, tasks, completed, prices_found,
                   total_cost, priced_list, final_report_text, lookups, log>>

\* lines 159-164, then the next iteration of the loop
Revise ==
    /\ pc = "REVISING"
    /\ current_prompt' = RevisionPrompt(total_cost, priced_list, user_input)
    /\ ForNext(attempt)
    /\ UNCHANGED <<call, user_input, budget, planOutstanding, mealplan_text,
                   grocery_list_items, tasks, completed, prices_found, total_cost,
                   priced_list, final_report_text, lookups, log>>

Next ==
    \/ RequestPlan
    \/ PlanReturns
    \/ Extract
    \/ \E i \in DOMAIN tasks : StartLookup(i)
    \/ \E i \in DOMAIN tasks : FullReturns(i)
    \/ \E i \in DOMAIN tasks : FallbackReturns(i)
    \/ Gather
    \/ Evaluate
    \/ Revise

Spec == Init /\ [][Next]_vars

\* every call returns and the event loop runs what is ready: the run goes on
\* while a step is possible
FairSpec == Spec /\ WF_vars(Next)

(***************************************************************************)
(* The text helpers called on their own, on texts of every shape: a web    *)
(* search answer and a generated plan are free text                        *)
(***************************************************************************)
loop_vars ==
    <<user_input, budget, current_prompt, attempt, pc, planOutstanding,
      mealplan_text, grocery_list_items, tasks, completed, prices_found,
      total_cost, priced_list, final_report_text, result, lookups, log>>

\* the longest text handed to _parse_price
MaxLen == 5

PriceAlphabet == {"$", "1", "2", ".", "-"}

\* every str of at most MaxLen characters of the alphabet, and the int 42
PriceTexts ==
    {Str(cs) : cs \in UNION {[1..n -> PriceAlphabet] : n \in 0..MaxLen}} \cup {NotStr}

\* the most lines a plan text has
MaxLines == 5

\* "### Grocery List"
HeaderLine == Slice(PlanHeader, 1, Len(PlanHeader) - 1)

\* a line of narrative, the header, an item line, an empty line
PlanLines == {<<"x">>, HeaderLine, <<"-", " ", "a">>, <<>>}

RECURSIVE JoinLines(_)
JoinLines(ls) ==
    IF Len(ls) = 0 THEN <<>> ELSE Head(ls) \o <<"\n">> \o JoinLines(Tail(ls))

\* every plan text of at most MaxLines such lines
PlanTexts == {JoinLines(ls) : ls \in UNION {[1..n -> PlanLines] : n \in 1..MaxLines}}

\* _parse_price(text), lines 20-34
ParsePriceCall ==
    /\ call = NoCall
    /\ \E text \in PriceTexts :
         call' = [fn |-> "_parse_price", arg |-> text, ret |-> _parse_price(text)]
    /\ UNCHANGED loop_vars

\* line 150 on a plan text
NarrativeCall ==
    /\ call = NoCall
    /\ \E text \in PlanTexts :
         call' = [fn |-> "narrative", arg |-> text, ret |-> Narrative(text)]
    /\ UNCHANGED loop_vars

HelperInit == Init /\ user_input = InputBudget7

HelperNext == ParsePriceCall \/ NarrativeCall

HelperSpec == HelperInit /\ [][HelperNext]_vars

(***************************************************************************)
(* Properties                                                              *)
(***************************************************************************)
Terminal == {"ACCEPTED", "EXHAUSTED"}

\* the attempts that have run to their end
Concluded(k) == log[k].outcome # "none"

OverBudget(k) == log[k].outcome = "priced" /\ log[k].total > budget

Affordable(k) == log[k].outcome = "priced" /\ log[k].total <= budget

PricesOf(priced) == [i \in DOMAIN priced |-> priced[i][2]]

PlanCallsUpTo(k) == SumSeq([j \in 1..(k + 1) |-> log[j - 1].planCalls])

\* C1: in every run, whatever mix of extraction failures and over-budget
\* results occurs, the planner is called at most 3 times in all and exactly
\* once per attempt; an attempt that fails extraction and an attempt that is
\* over budget each use up one value of the same attempt counter.
C1_PlanCallsBounded ==
    /\ attempt \in 0..2
    /\ PlanCallsUpTo(max_retries - 1) <= 3
    /\ \A k \in Attempts :
         /\ k < attempt => log[k].planCalls = 1 /\ log[k].outcome \in {"no_list", "priced"}
         /\ k > attempt => log[k].planCalls = 0 /\ log[k].outcome = "none"
    /\ log[attempt].planCalls = IF pc = "DRAFTING" /\ planOutstanding = 0 THEN 0 ELSE 1

\* three plan requests, after an extraction failure and an over-budget result
C1_Witness ==
    /\ pc \in Terminal
    /\ attempt = 2
    /\ log[0].outcome = "no_list"
    /\ OverBudget(1)
    /\ PlanCallsUpTo(2) = 3

\* C2: the loop is ACCEPTED at attempt k exactly when k is the first attempt
\* whose grocery list was extracted and whose total is at most the budget
\* (an equal total is accepted); the report then carries the total and the
\* priced list of attempt k, and no plan request or price lookup follows.
C2_AcceptedIffFirstAffordable ==
    /\ pc = "ACCEPTED" =>
         /\ Affordable(attempt)
         /\ \A j \in Attempts : j < attempt => ~Affordable(j)
         /\ result.kind = "accepted"
         /\ result.total = log[attempt].total
         /\ result.priced = priced_list
         /\ PricesOf(result.priced) = prices_found
         /\ SumSeq(prices_found) = log[attempt].total
         /\ planOutstanding = 0
         /\ ~ENABLED Next
    /\ \A k \in Attempts :
         Affordable(k) => k = attempt /\ pc \in {"EVALUATING", "ACCEPTED"}

\* accepted at the second attempt, after a first attempt over budget
C2_Witness ==
    /\ pc = "ACCEPTED"
    /\ attempt = 1
    /\ OverBudget(0)
    /\ result.total = log[1].total
    /\ result.total < log[0].total
    /\ Len(result.priced) = 2

\* C3: when the third attempt is priced and over budget, the loop ends
\* EXHAUSTED with a best-effort report whose total and priced list are those
\* of the third attempt, not of an earlier one.
C3_BestEffortIsLastAttempt ==
    /\ (pc = "EXHAUSTED" /\ log[2].outcome = "priced") =>
         /\ OverBudget(2)
         /\ result.kind = "best_effort"
         /\ result.total = log[2].total
         /\ result.priced = priced_list
         /\ PricesOf(result.priced) = prices_found
         /\ SumSeq(prices_found) = log[2].total
    /\ OverBudget(2) => attempt = 2 /\ pc \in {"EVALUATING", "EXHAUSTED"}

\* three priced attempts over budget, the last with a total of its own
C3_Witness ==
    /\ pc = "EXHAUSTED"
    /\ OverBudget(0) /\ OverBudget(1) /\ OverBudget(2)
    /\ log[0].total # log[2].total
    /\ log[1].total # log[2].total
    /\ current_prompt.total = log[1].total
    /\ current_prompt.priced # result.priced
    /\ result.total = log[2].total

NoListInPlan == pc = "EXTRACTING" /\ GrocerySearch(mealplan_text)[1] = 0

\* C4: when the plan text of an attempt holds no grocery list block, no
\* price lookup is sent for that attempt; at attempt 1 or 2 the loop goes
\* back to DRAFTING with the corrective prompt, and at attempt 3 it ends
\* EXHAUSTED returning that attempt's raw plan text with the
\* extraction-failure notice, also when earlier attempts had been priced.
C4_NoListNoLookup ==
    [][ NoListInPlan =>
          /\ lookups = 0
          /\ lookups' = 0
          /\ tasks' = tasks
          /\ IF attempt < 2
             THEN /\ pc' = "DRAFTING"
                  /\ attempt' = attempt + 1
                  /\ current_prompt' =
                       [kind |-> "corrective", total |-> 0, priced |-> <<>>,
                        user_input |-> user_input]
                  /\ result' = result
             ELSE /\ pc' = "EXHAUSTED"
                  /\ result'.kind = "extraction_error"
                  /\ result'.text = mealplan_text
                  /\ result'.priced = <<>>
      ]_vars

\* the third attempt has no list, after two priced attempts
C4_Witness ==
    /\ pc = "EXHAUSTED"
    /\ result.kind = "extraction_error"
    /\ result.text = mealplan_text
    /\ OverBudget(0) /\ OverBudget(1)
    /\ log[2].outcome = "no_list"
    /\ lookups = 0

\* C5: provided every plan request and every price lookup returns, every run
\* ends ACCEPTED or EXHAUSTED with a text report; it never ends with nothing
\* returned.
C5_Terminates ==
    <>[](pc \in Terminal /\ result.kind \in {"accepted", "best_effort", "extraction_error"})

\* a run that used all three attempts and ended with a report
C5_Witness ==
    /\ pc \in Terminal
    /\ attempt = 2
    /\ result.kind # "none"
    /\ ~ENABLED Next

\* the price an item's own answers give: that of the fallback answer when a
\* fallback was sent, else that of the first answer
OwnPrice(t) ==
    IF Len(t.queries) = 2 THEN _parse_price(t.result_fallback)
    ELSE _parse_price(t.result_full)

AllDone == \A i \in DOMAIN tasks : tasks[i].st = "done"

\* C6: for every priced attempt and every completion order of the lookups,
\* the priced list has the length and order of the extracted grocery list,
\* and the price at position i comes from the answers to item i's own
\* lookups alone.
C6_PricesByPosition ==
    [][ (pc = "PRICING" /\ pc' = "EVALUATING") =>
          /\ Len(prices_found') = Len(grocery_list_items)
          /\ Len(priced_list') = Len(grocery_list_items)
          /\ \A i \in 1..Len(grocery_list_items) :
               /\ tasks[i].item_text = grocery_list_items[i]
               /\ prices_found'[i] = OwnPrice(tasks[i])
               /\ priced_list'[i] = <<grocery_list_items[i], OwnPrice(tasks[i])>>
      ]_vars

\* two items priced differently, the second finished first, the first by fallback
C6_Witness ==
    /\ pc = "PRICING"
    /\ Len(tasks) = 2
    /\ AllDone
    /\ completed = <<2, 1>>
    /\ Len(tasks[1].queries) = 2
    /\ tasks[1].price # tasks[2].price
    /\ tasks[1].price > 0

\* "Milk"
MilkCore == <<"M", "i", "l", "k">>

\* C7: for each item a fallback lookup on the core name is sent exactly when
\* the price of the first answer is 0.0 and the core name differs from the
\* raw item text; it is sent only after the first answer has come, its price
\* replaces the first one, and no item sends more than two lookups.
C7_FallbackRule ==
    \A i \in DOMAIN tasks :
      LET t == tasks[i]
          core == _extract_item_name(t.item_text)
          answered == t.st \in {"await_fallback", "done"}
          wanted == _parse_price(t.result_full) = 0 /\ core # t.item_text
      IN  /\ Len(t.queries) <= 2
          /\ Len(t.queries) = 0 <=> t.st = "ready"
          /\ Len(t.queries) >= 1 => t.queries[1] = Query(t.item_text)
          /\ answered <=> t.result_full # NoValue
          /\ Len(t.queries) = 2 <=> (answered /\ wanted)
          /\ Len(t.queries) = 2 => t.queries[2] = Query(core)
          /\ t.st = "await_fallback" <=> (Len(t.queries) = 2 /\ t.result_fallback = NoValue)
          /\ t.st = "done" => t.price = OwnPrice(t)
          /\ t.item_text = Milk => core = MilkCore
          /\ t.item_text = Rice => core = Rice

\* Milk priced by its fallback on "Milk", Rice left at 0.0 without a fallback
C7_Witness ==
    /\ pc = "PRICING"
    /\ grocery_list_items = <<Milk, Rice>>
    /\ AllDone
    /\ tasks[1].queries = <<Query(Milk), Query(MilkCore)>>
    /\ tasks[1].result_full = TextNoData
    /\ tasks[1].result_fallback = Text120
    /\ tasks[1].price = 120
    /\ tasks[2].queries = <<Query(Rice)>>
    /\ tasks[2].result_full = TextNoData
    /\ tasks[2].price = 0

\* the lookup of the example: "$3.50" for the Milk query, "no data" for the
\* Rice query and "$1.20" for any fallback query about Rice
C8_Scenario ==
    /\ pc = "PRICING"
    /\ grocery_list_items = <<Milk, Rice>>
    /\ AllDone
    /\ tasks[1].result_full = Text350
    /\ tasks[2].result_full = TextNoData
    /\ Len(tasks[2].queries) = 2 => tasks[2].result_fallback = Text120

\* C8 as stated: pricing ["Milk (1 gallon)", "Rice"] with that lookup gives
\* [3.50, 1.20] and total 4.70, with two lookups for Rice and one for Milk.
C8_Original ==
    [][ (C8_Scenario /\ pc' = "EVALUATING") =>
          /\ prices_found' = <<350, 120>>
          /\ total_cost' = 470
          /\ Len(tasks[1].queries) = 1
          /\ Len(tasks[2].queries) = 2
      ]_vars

\* C8 as amended: pricing ["Milk (1 gallon)", "Rice"] with that lookup gives
\* [3.50, 0.00] and total 3.50, with one lookup for Milk and one for Rice:
\* the core name of "Rice" is the raw text, so no fallback is sent for it.
C8_Amended ==
    [][ (C8_Scenario /\ pc' = "EVALUATING") =>
          /\ prices_found' = <<350, 0>>
          /\ total_cost' = 350
          /\ tasks[1].queries = <<Query(Milk)>>
          /\ tasks[2].queries = <<Query(Rice)>>
          /\ lookups' = 2
      ]_vars

\* the example priced: two lookups in all, Milk at 3.50 and Rice at 0.00
C8_Witness ==
    /\ pc = "EVALUATING"
    /\ priced_list = <<<<Milk, 350>>, <<Rice, 0>>>>
    /\ total_cost = 350
    /\ lookups = 2

\* C9: within an attempt the loop does not reach EVALUATING until every
\* item's lookup, fallback included, has completed; while a lookup is still
\* to return, the run stays in PRICING: no total, no result, no plan request.
C9_GatherBarrier ==
    [][ (pc = "PRICING" /\ \E i \in DOMAIN tasks : tasks[i].st # "done") =>
          /\ pc' = "PRICING"
          /\ total_cost' = total_cost
          /\ prices_found' = prices_found
          /\ result' = result
          /\ log' = log
          /\ planOutstanding' = planOutstanding
      ]_vars

\* one item priced while another still awaits the answer to its fallback
C9_Witness ==
    /\ pc = "PRICING"
    /\ \E i, j \in DOMAIN tasks :
         /\ tasks[i].st = "done"
         /\ tasks[i].price > 0
         /\ tasks[j].st = "await_fallback"

\* C10: plan requests are strictly sequential: at most one is outstanding at
\* any time, and none is outstanding while a price lookup of an attempt is
\* still to be sent or answered.
C10_PlanCallsSequential ==
    /\ planOutstanding \in {0, 1}
    /\ planOutstanding = 1 => pc = "DRAFTING" /\ AllDone
    /\ ~AllDone => pc = "PRICING" /\ planOutstanding = 0
    /\ \A k \in Attempts : log[k].planCalls = 1 /\ k < attempt => Concluded(k)

\* the second plan request outstanding, the first attempt priced and over budget
C10_Witness ==
    /\ planOutstanding = 1
    /\ attempt = 1
    /\ OverBudget(0)
    /\ log[1].planCalls = 1
    /\ tasks = <<>>

\* C11 as stated: when orchestrator_tool receives the line chat_cli builds
\* for a budget input b, "- **Budget**: $b", the budget of the loop is b.
C11_Original ==
    \A b \in {<<"4">>, <<"7">>} :
      user_input = BudgetLine(b) => budget = 100 * DecimalValue(b)

\* the line built for a budget of 4 leaves the budget at 100.00, and a plan
\* costing 7.00 is accepted
C11_Witness ==
    /\ user_input = BudgetLine(<<"4">>)
    /\ budget = DefaultBudget
    /\ pc = "ACCEPTED"
    /\ result.total = 700

\* C12 as stated: for every plan text in which a grocery list block is found,
\* removing the grocery blocks and stripping the result yields a narrative in
\* which no grocery list block is found.
C12_Original ==
    (call.fn = "narrative" /\ GrocerySearch(call.arg)[1] # 0)
        => GrocerySearch(call.ret)[1] = 0

\* a header left in front of item lines once the block between them is gone:
\* the narrative of "### Grocery List\n### Grocery List\n- a\n\n- a\n"
C12_Witness ==
    /\ call.fn = "narrative"
    /\ call.arg = JoinLines(<<HeaderLine, HeaderLine, <<"-", " ", "a">>, <<>>, <<"-", " ", "a">>>>)
    /\ call.ret = JoinLines(<<HeaderLine, <<>>>>) \o <<"-", " ", "a">>
    /\ GrocerySearch(call.ret)[1] # 0

\* t[a..b] is an optional "$", digits, a point and exactly two digits
IsPriceAt(t, a, b) ==
    LET s == IF t[a] = "$" THEN a + 1 ELSE a
    IN  /\ s <= b - 3
        /\ \A k \in s..(b - 3) : IsDigit(t[k])
        /\ t[b - 2] = "."
        /\ IsDigit(t[b - 1])
        /\ IsDigit(t[b])

\* the value in cents of such a substring
PriceValue(t, a, b) ==
    LET s == IF t[a] = "$" THEN a + 1 ELSE a
    IN  100 * DecimalValue(Slice(t, s, b - 3)) + 10 * DigitVal(t[b - 1]) + DigitVal(t[b])

PriceStarts(t) == {a \in 1..Len(t) : \E b \in a..Len(t) : IsPriceAt(t, a, b)}

\* C13: _parse_price returns the value of the leftmost substring made of an
\* optional currency symbol, digits, a decimal point and exactly two digits;
\* it returns 0.0 when there is no such substring or the input is not a
\* string, and it never returns a negative value.
C13_ParsePrice ==
    call.fn = "_parse_price" =>
      LET text == call.arg
          t == text.chars
          a == First(PriceStarts(t))
      IN  /\ call.ret >= 0
          /\ ~text.isstr => call.ret = 0
          /\ (text.isstr /\ a = 0) => call.ret = 0
          /\ (text.isstr /\ a # 0) =>
                \E b \in a..Len(t) : IsPriceAt(t, a, b) /\ call.ret = PriceValue(t, a, b)

\* "11.22": the substring from the first character, not the later "1.22"
C13_Witness ==
    /\ call.fn = "_parse_price"
    /\ call.arg = Str(<<"1", "1", ".", "2", "2">>)
    /\ call.ret = 1122

AllowedTransitions ==
    {<<"DRAFTING", "EXTRACTING">>,
     <<"EXTRACTING", "PRICING">>, <<"EXTRACTING", "DRAFTING">>, <<"EXTRACTING", "EXHAUSTED">>,
     <<"PRICING", "EVALUATING">>,
     <<"EVALUATING", "ACCEPTED">>, <<"EVALUATING", "REVISING">>, <<"EVALUATING", "EXHAUSTED">>,
     <<"REVISING", "DRAFTING">>}

\* C14: the loop starts in DRAFTING and only moves DRAFTING -> EXTRACTING,
\* EXTRACTING -> PRICING, DRAFTING or EXHAUSTED, PRICING -> EVALUATING,
\* EVALUATING -> ACCEPTED, REVISING or EXHAUSTED, and REVISING -> DRAFTING;
\* ACCEPTED and EXHAUSTED are absorbing: no step of any kind leaves them.
C14_Transitions ==
    /\ pc = "DRAFTING"
    /\ [][ /\ pc' # pc => <<pc, pc'>> \in AllowedTransitions
           /\ pc \notin Terminal
         ]_vars

\* a run through a revision, a failed extraction and a third priced attempt
C14_Witness ==
    /\ pc = "EXHAUSTED"
    /\ OverBudget(0)
    /\ log[1].outcome = "no_list"
    /\ OverBudget(2)

\* C15: no item's lookup blocks another's: whatever the other lookups of the
\* attempt are doing, a lookup that is outstanding can be answered, first
\* query or fallback, and the answer fixes that item's price and touches no
\* other item; so item i can be priced by its fallback while the first
\* lookup of another item j is still outstanding.
C15_NoBlocking ==
    /\ [](\A i \in DOMAIN tasks :
            /\ tasks[i].st = "await_full" => ENABLED FullReturns(i)
            /\ tasks[i].st = "await_fallback" => ENABLED FallbackReturns(i))
    /\ [][ \A i \in DOMAIN tasks :
             (pc' = "PRICING" /\ i \in DOMAIN tasks' /\ tasks'[i] # tasks[i]) =>
                /\ \A j \in DOMAIN tasks : j # i => tasks'[j] = tasks[j]
                /\ tasks[i].st # "done"
         ]_vars

\* the second item priced by its fallback while the first item's first
\* lookup is still outstanding
C15_Witness ==
    /\ pc = "PRICING"
    /\ grocery_list_items = RiceMilk
    /\ tasks[1].st = "await_full"
    /\ tasks[2].st = "done"
    /\ tasks[2].queries = <<Query(Milk), Query(MilkCore)>>
    /\ tasks[2].price = 120
    /\ completed = <<2>>

\* the least total among the attempts that were priced
MinPricedTotal ==
    LET totals == {log[k].total : k \in {j \in Attempts : log[j].outcome = "priced"}}
    IN  CHOOSE m \in totals : \A x \in totals : m <= x

\* C16 as stated: in the best-effort report returned after three over-budget
\* attempts, the cost given as that of the cheapest plan generated is the
\* least total over the attempts that were priced.
C16_Original ==
    (pc = "EXHAUSTED" /\ \A k \in Attempts : OverBudget(k))
        => result.kind = "best_effort" /\ result.cheapest = MinPricedTotal

\* a best-effort report whose "cheapest" cost is the total of the third
\* attempt, 7.00, after a first attempt at 4.70
C16_Witness ==
    /\ pc = "EXHAUSTED"
    /\ result.kind = "best_effort"
    /\ budget = 400
    /\ log[0].total = 470
    /\ log[1].total = 700
    /\ log[2].total = 700
    /\ result.cheapest = 700

\* C17: whenever attempt k is over budget and attempts remain, the prompt of
\* attempt k+1 carries the total and the priced list of attempt k, not of an
\* earlier attempt, together with the original user request; the user
\* request is never modified and is part of every prompt sent to the planner.
C17_RevisionPrompt ==
    /\ [](/\ current_prompt.user_input = user_input
          /\ \A k \in Attempts :
               (OverBudget(k) /\ k + 1 = attempt) =>
                  /\ current_prompt.kind = "revision"
                  /\ current_prompt.total = log[k].total
                  /\ SumSeq(PricesOf(current_prompt.priced)) = log[k].total)
    /\ [][ /\ user_input' = user_input
           /\ (pc = "EVALUATING" /\ total_cost > budget /\ attempt < max_retries - 1)
                 => pc' = "REVISING"
           /\ pc = "REVISING" =>
                 /\ OverBudget(attempt)
                 /\ log[attempt].total = total_cost
                 /\ attempt' = attempt + 1
                 /\ current_prompt' =
                      [kind |-> "revision", total |-> total_cost,
                       priced |-> priced_list, user_input |-> user_input]
           /\ planOutstanding' > planOutstanding
                 => current_prompt.user_input = user_input /\ current_prompt' = current_prompt
         ]_vars

\* the third plan requested with the figures of the second attempt, which
\* differ from those of the first
C17_Witness ==
    /\ attempt = 2
    /\ planOutstanding = 1
    /\ OverBudget(0) /\ OverBudget(1)
    /\ log[0].total # log[1].total
    /\ current_prompt.kind = "revision"
    /\ current_prompt.total = log[1].total
    /\ current_prompt.priced = priced_list
    /\ Len(current_prompt.priced) = 2

\* every answer item t received, first query and fallback, holds no price
NoPriceIn(t) ==
    /\ Len(t.queries) >= 1
    /\ _parse_price(t.result_full) = 0
    /\ Len(t.queries) = 2 => _parse_price(t.result_fallback) = 0

\* C18: an attempt in which every lookup, first query and fallback, returns
\* text with no parseable price has every item priced at 0.0 and a total of
\* 0.0, and is ACCEPTED whatever the budget, 0 included, without a revision
\* being requested.
C18_AllZeroAccepted ==
    [][ /\ (pc = "PRICING" /\ pc' = "EVALUATING"
              /\ \A i \in DOMAIN tasks : NoPriceIn(tasks[i])) =>
                /\ prices_found' = [i \in DOMAIN tasks |-> 0]
                /\ priced_list' = [i \in DOMAIN tasks |-> <<grocery_list_items[i], 0>>]
                /\ total_cost' = 0
        /\ (pc = "EVALUATING" /\ \A i \in DOMAIN prices_found : prices_found[i] = 0) =>
                /\ total_cost = 0
                /\ pc' = "ACCEPTED"
                /\ result'.kind = "accepted"
                /\ result'.total = 0
                /\ result'.priced = priced_list
                /\ current_prompt' = current_prompt
                /\ attempt' = attempt
      ]_vars

\* two items without a price, three lookups, accepted against a budget of 0
C18_Witness ==
    /\ pc = "ACCEPTED"
    /\ budget = 0
    /\ lookups = 3
    /\ result.priced = <<<<Milk, 0>>, <<Rice, 0>>>>
    /\ result.total = 0

\* the item lines of every block the removal of line 150 deletes from t,
\* from position i on
RECURSIVE DeletedItems(_, _)
DeletedItems(t, i) ==
    LET m == BlockSearchFrom(t, i)
    IN  IF m[1] = 0 THEN <<>>
        ELSE FindItems(Slice(t, m[2], m[3] - 1), 1) \o DeletedItems(t, m[3])

\* C19 as stated: no grocery item is lost from the final report: every item
\* line the removal step deletes from the plan text, in any grocery list
\* block, appears with a price in the priced list of the same report.
C19_Original ==
    result.kind \in {"accepted", "best_effort"} =>
      \A d \in DOMAIN DeletedItems(mealplan_text, 1) :
        \E k \in DOMAIN result.priced :
          result.priced[k][1] = DeletedItems(mealplan_text, 1)[d]

\* the plan with two lists accepted: "- Rice" is gone from the narrative and
\* the priced list holds Milk alone
C19_Witness ==
    /\ pc = "ACCEPTED"
    /\ mealplan_text = PlanTwoLists
    /\ DeletedItems(mealplan_text, 1) = <<Milk, Rice>>
    /\ result.text = <<"P", "l", "a", "n">>
    /\ result.priced = <<<<Milk, 350>>>>

====
